---- MODULE Spec2Model ----
(***************************************************************************)
(* A model of movielens_analysis.py: the four table classes (Links,        *)
(* Movies, Ratings, Tags), their loaders and their queries.                *)
(*                                                                         *)
(* A Python str is a sequence of one-character strings, so that replace,   *)
(* strip, split, isdigit, int and float are computed character by          *)
(* character as CPython computes them.  None is the value None.            *)
(***************************************************************************)
EXTENDS Integers, Sequences, FiniteSets, TLC

VARIABLES
    text, parsed, parser,          \* the scraped-text parsers of Links
    line, row, loader,             \* one CSV line and the row a loader makes of it
    file,                          \* the table's file: [exists, lines, errAt]
    moviesCsv,                     \* data-folder/movies.csv, read by Links._load_movies
    obj,                           \* the class of the constructed object, or "none"
    data, tags,                    \* the object's rows, and Tags.tags
    loadFailed,                    \* an error was caught while the table was loaded
    op, arg, res, raised,          \* the last query, its arguments, result and exception
    net,                           \* what each fetch of the last query met
    sample, given, stat            \* a caller's list, the list it passed, and the
                                   \* outcome of the statistic called on it

parseVars == <<text, parsed, parser>>
csvVars == <<line, row, loader>>
objVars == <<file, moviesCsv, obj, data, tags, loadFailed>>
queryVars == <<op, arg, res, raised, net>>
statVars == <<sample, given, stat>>
vars == <<text, parsed, parser, line, row, loader, file, moviesCsv, obj, data, tags,
          loadFailed, op, arg, res, raised, net, sample, given, stat>>

(***************************************************************************)
(* Bounds of the model.                                                    *)
(***************************************************************************)
MaxRuntimeLen == 4      \* characters of a runtime text
MaxChunks == 4          \* pieces a budget text is made of
MaxLineLen == 7         \* characters of a CSV line
MaxRows == 3            \* lines of a table's file
MaxObjectRows == 2      \* lines of a file that all four classes are constructed on
MaxSample == 4          \* numbers of a list given to a statistic
MaxValue == 4           \* the numbers of such a list are 1..MaxValue

None == <<"<None>">>

(***************************************************************************)
(* Python str operations.                                                  *)
(***************************************************************************)
Digits == {"0", "1", "2", "3", "4", "5", "6", "7", "8", "9"}

DigitVal(c) ==
    CASE c = "0" -> 0 [] c = "1" -> 1 [] c = "2" -> 2 [] c = "3" -> 3
      [] c = "4" -> 4 [] c = "5" -> 5 [] c = "6" -> 6 [] c = "7" -> 7
      [] c = "8" -> 8 [] c = "9" -> 9

\* bool(s) of a str or None: None and "" are false
Truthy(s) == s /= None /\ s /= <<>>

\* s.startswith(sub) at offset i (1-based)
MatchAt(s, sub, i) ==
    /\ i + Len(sub) - 1 <= Len(s)
    /\ \A k \in 1..Len(sub) : s[i + k - 1] = sub[k]

\* sub in s
Contains(s, sub) == \E i \in 1..(Len(s) + 1) : MatchAt(s, sub, i)

\* s.replace(old, ""), old non-empty: non-overlapping occurrences, left to right
RECURSIVE Remove(_, _)
Remove(s, old) ==
    IF s = <<>> THEN <<>>
    ELSE IF MatchAt(s, old, 1)
         THEN Remove(SubSeq(s, Len(old) + 1, Len(s)), old)
         ELSE <<Head(s)>> \o Remove(Tail(s), old)

RECURSIVE LStripSet(_, _)
LStripSet(s, chars) ==
    IF s /= <<>> /\ Head(s) \in chars THEN LStripSet(Tail(s), chars) ELSE s

RECURSIVE RStripSet(_, _)
RStripSet(s, chars) ==
    IF s /= <<>> /\ s[Len(s)] \in chars
    THEN RStripSet(SubSeq(s, 1, Len(s) - 1), chars) ELSE s

\* s.strip(chars)
StripSet(s, chars) == RStripSet(LStripSet(s, chars), chars)

\* s.strip(): the whitespace of the modelled alphabet is the space
Strip(s) == StripSet(s, {" "})

\* s.split(sep), sep one character: every occurrence separates, empty pieces kept
RECURSIVE SplitAcc(_, _, _)
SplitAcc(s, sep, cur) ==
    IF s = <<>> THEN <<cur>>
    ELSE IF Head(s) = sep
         THEN <<cur>> \o SplitAcc(Tail(s), sep, <<>>)
         ELSE SplitAcc(Tail(s), sep, Append(cur, Head(s)))

Split(s, sep) == SplitAcc(s, sep, <<>>)

\* s.isdigit()
IsDigit(s) == s /= <<>> /\ \A i \in 1..Len(s) : s[i] \in Digits

\* int(s) of a digit string
RECURSIVE ToInt(_)
ToInt(s) ==
    IF s = <<>> THEN 0
    ELSE 10 * ToInt(SubSeq(s, 1, Len(s) - 1)) + DigitVal(s[Len(s)])

(***************************************************************************)
(* float(s).  Over the characters of the modelled texts (digits, space,    *)
(* "$", ",", "(", ")", and the letters of "estimated", where an "e" is     *)
(* always followed by "s") float accepts exactly a digit string with       *)
(* optional surrounding whitespace; everything else is a ValueError.       *)
(***************************************************************************)
FloatOk(s) == IsDigit(Strip(s))
FloatVal(s) == ToInt(Strip(s))

(***************************************************************************)
(* Links._parse_budget, Links._parse_runtime                               *)
(***************************************************************************)
Estimated == <<"e", "s", "t", "i", "m", "a", "t", "e", "d">>
EstimatedParen == <<"(">> \o Estimated \o <<")">>

BudgetCleaned(budget) ==
    Strip(Remove(Remove(Remove(budget, EstimatedParen), <<"$">>), <<",">>))

ParseBudgetNoMarker(budget) ==
    IF Truthy(budget)
    THEN IF FloatOk(BudgetCleaned(budget)) THEN FloatVal(BudgetCleaned(budget)) ELSE 0
    ELSE 0

ParseBudget(budget) ==
    IF Truthy(budget) /\ Contains(budget, Estimated)
    THEN IF FloatOk(BudgetCleaned(budget)) THEN FloatVal(BudgetCleaned(budget)) ELSE 0
    ELSE 0

RuntimeCleaned(runtime) == Strip(Remove(Remove(runtime, <<"h">>), <<"m">>))

ParseRuntime(runtime) ==
    IF Truthy(runtime)
    THEN LET r == RuntimeCleaned(runtime)
             parts == Split(r, " ")
             hours == IF Contains(r, <<" ">>)
                      THEN (IF IsDigit(parts[1]) THEN ToInt(parts[1]) ELSE 0)
                      ELSE 0
             minutes == IF Contains(r, <<" ">>)
                        THEN (IF IsDigit(parts[2]) THEN ToInt(parts[2]) ELSE 0)
                        ELSE IF IsDigit(r) THEN ToInt(r) ELSE 0
         IN  hours * 60 + minutes
    ELSE 0

(***************************************************************************)
(* The texts the parsers are applied to.                                   *)
(***************************************************************************)
RECURSIVE Strings(_, _)
Strings(alphabet, n) ==
    IF n = 0 THEN {<<>>}
    ELSE LET shorter == Strings(alphabet, n - 1)
         IN  shorter \cup {Append(s, c) : s \in shorter, c \in alphabet}

RECURSIVE Flatten(_)
Flatten(ss) == IF ss = <<>> THEN <<>> ELSE Head(ss) \o Flatten(Tail(ss))

RuntimeAlphabet == {"1", "5", "h", "m", " ", "x"}
RuntimeTexts == Strings(RuntimeAlphabet, MaxRuntimeLen)

BudgetChunks ==
    {<<"$">>, <<",">>, <<"3">>, <<"0">>, <<" ">>, EstimatedParen, Estimated}
BudgetTexts == {Flatten(cs) : cs \in Strings(BudgetChunks, MaxChunks)}

Text_1h35m == <<"1", "h", " ", "3", "5", "m">>
Text_95 == <<"9", "5">>
Text_1h == <<"1", "h">>
Text_30M == <<"$", "3", "0", ",", "0", "0", "0", ",", "0", "0", "0">>
Text_30M_est == Text_30M \o <<" ">> \o EstimatedParen

Texts ==
    RuntimeTexts \cup BudgetTexts
        \cup {None, Text_1h35m, Text_95, Text_30M, Text_30M_est}

ParseInit ==
    /\ text \in Texts
    /\ parsed = 0
    /\ parser = "none"

ParseIdle ==
    /\ text = None
    /\ parsed = 0
    /\ parser = "none"

NoStat == [value |-> 0, raised |-> "none"]

StatIdle ==
    /\ sample = <<>>
    /\ given = <<>>
    /\ stat = NoStat

CallParseRuntime ==
    /\ parser = "none"
    /\ parsed' = ParseRuntime(text)
    /\ parser' = "runtime"
    /\ UNCHANGED text

CallParseBudget ==
    /\ parser = "none"
    /\ parsed' = ParseBudget(text)
    /\ parser' = "budget"
    /\ UNCHANGED text

(***************************************************************************)
(* C4: _parse_runtime gives 95 for "1h 35m", 95 for "95", 60 times the     *)
(* hours for an hours-only text such as "1h", and 0 for a missing text or  *)
(* one with no digit in it.                                                *)
(***************************************************************************)
HoursOnly(t) ==
    /\ t /= None
    /\ Len(t) >= 2
    /\ t[Len(t)] = "h"
    /\ IsDigit(SubSeq(t, 1, Len(t) - 1))

NoDigit(t) == t = None \/ \A i \in 1..Len(t) : t[i] \notin Digits

C4_RuntimeTable ==
    parser = "runtime" =>
        /\ text = Text_1h35m => parsed = 95
        /\ text = Text_95 => parsed = 95
        /\ text = Text_1h => parsed = 60
        /\ HoursOnly(text) => parsed = 60 * ToInt(SubSeq(text, 1, Len(text) - 1))
        /\ NoDigit(text) => parsed = 0

\* the part of C4 the code satisfies: everything but the hours-only text
C4_RuntimeTableButHoursOnly ==
    parser = "runtime" =>
        /\ text = Text_1h35m => parsed = 95
        /\ text = Text_95 => parsed = 95
        /\ NoDigit(text) => parsed = 0

(***************************************************************************)
(* C9: _parse_budget gives 0 for every text without the marker             *)
(* "estimated"; for a text with the marker it gives the number that is     *)
(* left when "(estimated)", "$", "," and the surrounding whitespace are    *)
(* taken away, and 0 when what is left is no number;                       *)
(* "$30,000,000 (estimated)" gives 30000000 and "$30,000,000" gives 0.     *)
(***************************************************************************)
NotMoney(c) == c \notin {"$", ","}

\* the text without "(estimated)", "$", "," and the spaces around it
Remainder(t) == Strip(SelectSeq(Remove(t, EstimatedParen), NotMoney))

\* the value of a decimal numeral, most significant digit first
RECURSIVE Decimal(_, _)
Decimal(s, acc) ==
    IF s = <<>> THEN acc ELSE Decimal(Tail(s), 10 * acc + DigitVal(Head(s)))

IsNumeral(s) == Len(s) > 0 /\ \A i \in 1..Len(s) : s[i] \in Digits

HasMarker(t) ==
    /\ t /= None
    /\ \E i \in 1..Len(t) : i + 8 <= Len(t) /\ SubSeq(t, i, i + 8) = Estimated

C9_BudgetMarker ==
    parser = "budget" =>
        /\ ~HasMarker(text) => parsed = 0
        /\ HasMarker(text) =>
              parsed = (IF IsNumeral(Remainder(text))
                        THEN Decimal(Remainder(text), 0) ELSE 0)
        /\ text = Text_30M_est => parsed = 30000000
        /\ text = Text_30M => parsed = 0

C9_Witness ==
    /\ parser = "budget"
    /\ text = Text_30M_est
    /\ parsed = 30000000

(***************************************************************************)
(* The row loaders: one line of the file to one row.                       *)
(***************************************************************************)
Quote == "\""

QuoteCount(s) == Cardinality({i \in 1..Len(s) : s[i] = Quote})

\* re.split(r',(?=(?:[^"]*"[^"]*")*[^"]*$)', s): a comma separates when the
\* text after it holds an even number of quotes
RECURSIVE RegexSplitAcc(_, _)
RegexSplitAcc(s, cur) ==
    IF s = <<>> THEN <<cur>>
    ELSE IF Head(s) = "," /\ QuoteCount(Tail(s)) % 2 = 0
         THEN <<cur>> \o RegexSplitAcc(Tail(s), <<>>)
         ELSE RegexSplitAcc(Tail(s), Append(cur, Head(s)))

RegexSplit(s) == RegexSplitAcc(s, <<>>)

\* [field.strip('"') for field in row]
StripQuotes(r) == [i \in 1..Len(r) |-> StripSet(r[i], {Quote})]

\* Tags._load_data, Links._load_data, Links._load_movies: the row of a line
RegexRow(l) == StripQuotes(RegexSplit(Strip(l)))

\* Movies.read_data: the row of a line
MoviesRow(l) ==
    IF ~Contains(l, <<Quote>>) THEN Split(Strip(l), ",") ELSE Split(Strip(l), Quote)

\* Ratings.read_data: the row of a line
RatingsRow(l) == Split(Strip(l), ",")

CsvAlphabet == {"a", ",", Quote}
Line_Quoted3 == <<Quote, "a", ",", "a", Quote, ",", "a", ",", "a">>
CsvLines == Strings(CsvAlphabet, MaxLineLen) \cup {Line_Quoted3}

CsvInit ==
    /\ line \in CsvLines
    /\ row = <<>>
    /\ loader = "none"

CsvIdle ==
    /\ line = <<>>
    /\ row = <<>>
    /\ loader = "none"

LoadRegexRow ==
    /\ loader = "none"
    /\ row' = RegexRow(line)
    /\ loader' = "regex"
    /\ UNCHANGED line

LoadMoviesRow ==
    /\ loader = "none"
    /\ row' = MoviesRow(line)
    /\ loader' = "movies"
    /\ UNCHANGED line

LoadRatingsRow ==
    /\ loader = "none"
    /\ row' = RatingsRow(line)
    /\ loader' = "ratings"
    /\ UNCHANGED line

(***************************************************************************)
(* C10: for a line whose quotes are balanced, a row loader separates the   *)
(* line exactly at the commas outside a quoted section, and each field is  *)
(* the text between two separators without its surrounding quotes; so a    *)
(* quoted field with a comma and two further fields make 3 fields.         *)
(***************************************************************************)
Balanced(l) == QuoteCount(l) % 2 = 0

\* left to right, inside: whether a quoted section is open
RECURSIVE OutsideSplit(_, _, _)
OutsideSplit(s, cur, inside) ==
    IF s = <<>> THEN <<cur>>
    ELSE IF Head(s) = "," /\ ~inside
         THEN <<cur>> \o OutsideSplit(Tail(s), <<>>, inside)
         ELSE OutsideSplit(Tail(s), Append(cur, Head(s)),
                           IF Head(s) = Quote THEN ~inside ELSE inside)

Unquoted(f) == StripSet(f, {Quote})

ExpectedRow(l) ==
    LET fs == OutsideSplit(l, <<>>, FALSE)
    IN  [i \in 1..Len(fs) |-> Unquoted(fs[i])]

C10_SplitOutsideQuotes ==
    (loader \in {"regex", "movies"} /\ Balanced(line)) =>
        /\ row = ExpectedRow(line)
        /\ line = Line_Quoted3 => Len(row) = 3

\* the part of C10 the code satisfies: the regex loaders of Tags and Links
C10_RegexSplitOutsideQuotes ==
    (loader = "regex" /\ Balanced(line)) =>
        /\ row = ExpectedRow(line)
        /\ line = Line_Quoted3 => Len(row) = 3

(***************************************************************************)
(* Files.  A file is [exists, lines, errAt]: errAt = k > 0 says that the   *)
(* read that would deliver line k raises instead (an OSError, or the       *)
(* UnicodeDecodeError of the block the line lies in); 0 says no read       *)
(* fails.  The lines before line k have been delivered by then.            *)
(***************************************************************************)
RECURSIVE SeqsUpTo(_, _)
SeqsUpTo(S, n) ==
    IF n = 0 THEN {<<>>}
    ELSE LET shorter == SeqsUpTo(S, n - 1)
         IN  shorter \cup {Append(q, x) : q \in shorter, x \in S}

NoFile == [exists |-> FALSE, lines |-> <<>>, errAt |-> 0]

Files(lineSet, errs) ==
    {NoFile} \cup
    {[exists |-> TRUE, lines |-> ls, errAt |-> e] :
        ls \in SeqsUpTo(lineSet, MaxRows), e \in errs}

\* the lines the iteration delivers before it ends or raises
Delivered(f) ==
    IF f.errAt > 0 /\ f.errAt <= Len(f.lines)
    THEN SubSeq(f.lines, 1, f.errAt - 1) ELSE f.lines

ReadFails(f) == f.errAt > 0 /\ f.errAt <= Len(f.lines)

LinksLine_1 == <<"1", ",", "1", "1", ",", "0">>    \* 1,11,0
LinksLine_2 == <<"2", ",", "2", "2", ",", "0">>    \* 2,22,0
LinksLine_3 == <<"3", ",", "3", "3", ",", "0">>    \* 3,33,0
LinksLine_short == <<"4">>    \* 4
LinksLine_noimdb == <<"5", ",", ",", "0">>    \* 5,,0
LinksLines ==
    {LinksLine_1, LinksLine_2, LinksLine_3, LinksLine_short, LinksLine_noimdb}

TagsLine_Ab == <<"1", ",", "1", ",", "A", "b", ",", "0">>    \* 1,1,Ab,0
TagsLine_ab == <<"1", ",", "2", ",", "a", "b", ",", "0">>    \* 1,2,ab,0
TagsLine_a_b == <<"2", ",", "1", ",", "a", " ", "b", ",", "0">>    \* 2,1,a b,0
TagsLine_quoted == <<"2", ",", "2", ",", "\"", "b", ",", "c", "\"", ",", "0">>    \* 2,2,'b,c',0
TagsLine_short == <<"1", ",", "1">>    \* 1,1
TagsLines ==
    {TagsLine_Ab, TagsLine_ab, TagsLine_a_b, TagsLine_quoted, TagsLine_short}

RatingsLine_header == <<"u", ",", "m", ",", "r", ",", "t">>    \* u,m,r,t
RatingsLine_u1m1 == <<"1", ",", "1", ",", "4", ",", "0">>    \* 1,1,4,0
RatingsLine_u2m1 == <<"2", ",", "1", ",", "2", ",", "0">>    \* 2,1,2,0
RatingsLine_u2m9 == <<"2", ",", "9", ",", "3", ",", "0">>    \* 2,9,3,0
RatingsLine_blank == <<>>
RatingsLine_nan == <<"1", ",", "1", ",", "x", ",", "0">>    \* 1,1,x,0
RatingsLines ==
    {RatingsLine_header, RatingsLine_u1m1, RatingsLine_u2m1, RatingsLine_u2m9,
     RatingsLine_blank, RatingsLine_nan}

MoviesLine_header == <<"i", ",", "t", ",", "g">>    \* i,t,g
MoviesLine_1 == <<"1", ",", "T", " ", "(", "1", "9", "9", "5", ")", ",", "A", "|", "B">>    \* 1,T (1995),A|B
MoviesLine_2 == <<"2", ",", "U", " ", "(", "1", "9", "9", "0", ")", ",", "A">>    \* 2,U (1990),A
MoviesLine_quoted == <<"3", ",", "\"", "V", ",", " ", "W", " ", "(", "1", "9", "9", "5", ")", "\"", ",", "B">>    \* 3,'V, W (1995)',B
MoviesLine_blank == <<>>
MoviesLine_bare == <<"4", ",", "1", "2", "3", ",", "A">>    \* 4,123,A
MoviesLines ==
    {MoviesLine_header, MoviesLine_1, MoviesLine_2, MoviesLine_quoted,
     MoviesLine_blank, MoviesLine_bare}

(***************************************************************************)
(* The loaders.  Each gives [rows, failed]: the rows the loader returns    *)
(* and whether it caught an error on the way.                              *)
(***************************************************************************)
\* Links._load_data: the rows appended before a read fails, or before a row
\* with fewer than 3 fields raises IndexError, are returned
RECURSIVE LinksRows(_)
LinksRows(ls) ==
    IF ls = <<>> THEN [rows |-> <<>>, failed |-> FALSE]
    ELSE LET r == RegexRow(Head(ls))
         IN  IF Len(r) < 3 THEN [rows |-> <<>>, failed |-> TRUE]
             ELSE LET rest == LinksRows(Tail(ls))
                  IN  [rows |-> <<[movieId |-> r[1], imdbId |-> r[2],
                                   tmdbId |-> r[3]]>> \o rest.rows,
                       failed |-> rest.failed]

LinksLoadData(f) ==
    IF ~f.exists THEN [rows |-> <<>>, failed |-> TRUE]
    ELSE LET got == LinksRows(Delivered(f))
         IN  [rows |-> got.rows, failed |-> got.failed \/ ReadFails(f)]

\* Tags._load_data skipping a header line, as Ratings.read_data does
TagsLoadDataSkipHeader(f) ==
    IF ~f.exists THEN [rows |-> <<>>, failed |-> TRUE]
    ELSE [rows |-> [i \in 1..(Len(Delivered(f)) - 1) |-> RegexRow(Delivered(f)[i + 1])],
          failed |-> ReadFails(f)]

\* Tags._load_data: the rows appended before a read fails are returned
TagsLoadData(f) ==
    IF ~f.exists THEN [rows |-> <<>>, failed |-> TRUE]
    ELSE [rows |-> [i \in 1..Len(Delivered(f)) |-> RegexRow(Delivered(f)[i])],
          failed |-> ReadFails(f)]

\* Movies.read_data: the list is built whole and its first row dropped;
\* an error while it is built leaves data = []
MoviesReadData(f) ==
    IF ~f.exists \/ ReadFails(f) THEN [rows |-> <<>>, failed |-> TRUE]
    ELSE [rows |-> [i \in 1..(Len(f.lines) - 1) |-> MoviesRow(f.lines[i + 1])],
          failed |-> FALSE]

\* Ratings.read_data: readline() takes the first line, the list is built
\* whole from the rest; an error leaves data = []
RatingsReadData(f) ==
    IF ~f.exists \/ ReadFails(f) THEN [rows |-> <<>>, failed |-> TRUE]
    ELSE [rows |-> [i \in 1..(Len(f.lines) - 1) |-> RatingsRow(f.lines[i + 1])],
          failed |-> FALSE]

\* Tags._load_tags: the tags of the rows with more than 2 fields, in order
TagColumn(rows) ==
    LET long == SelectSeq(rows, LAMBDA r : Len(r) > 2)
    IN  [i \in 1..Len(long) |-> Strip(long[i][3])]

Range(q) == {q[i] : i \in 1..Len(q)}

\* the orders list(set(xs)) can come out in
Orderings(S) ==
    {q \in [1..Cardinality(S) -> S] : \A x \in S : \E i \in 1..Cardinality(S) : q[i] = x}

NoArg == [n |-> 0, metric |-> "", idx |-> 0, word |-> <<>>]

NoQuery ==
    /\ op = "none"
    /\ arg = NoArg
    /\ res = <<>>
    /\ raised = "none"
    /\ net = <<>>

ObjInit(files, catalogs) ==
    /\ file \in files
    /\ moviesCsv \in catalogs
    /\ obj = "none"
    /\ data = <<>>
    /\ tags = <<>>
    /\ loadFailed = FALSE
    /\ NoQuery

ObjIdle ==
    /\ file = NoFile
    /\ moviesCsv = NoFile
    /\ obj = "none"
    /\ data = <<>>
    /\ tags = <<>>
    /\ loadFailed = FALSE
    /\ NoQuery

\* Links.__init__
NewLinks ==
    /\ obj = "none"
    /\ obj' = "Links"
    /\ data' = LinksLoadData(file).rows
    /\ loadFailed' = LinksLoadData(file).failed
    /\ UNCHANGED <<file, moviesCsv, tags, queryVars>>

\* Tags.__init__
NewTags ==
    /\ obj = "none"
    /\ obj' = "Tags"
    /\ data' = TagsLoadData(file).rows
    /\ loadFailed' = TagsLoadData(file).failed
    /\ tags' \in Orderings(Range(TagColumn(TagsLoadData(file).rows)))
    /\ UNCHANGED <<file, moviesCsv, queryVars>>

\* Movies.__init__
NewMovies ==
    /\ obj = "none"
    /\ obj' = "Movies"
    /\ data' = MoviesReadData(file).rows
    /\ loadFailed' = MoviesReadData(file).failed
    /\ UNCHANGED <<file, moviesCsv, tags, queryVars>>

\* Ratings.__init__
NewRatings ==
    /\ obj = "none"
    /\ obj' = "Ratings"
    /\ data' = RatingsReadData(file).rows
    /\ loadFailed' = RatingsReadData(file).failed
    /\ UNCHANGED <<file, moviesCsv, tags, queryVars>>

(***************************************************************************)
(* C6: when loading the table fails (the file is missing, or an error is   *)
(* raised while its lines are read, also part-way through), the object's   *)
(* row sequence is empty after __init__.  (Every loader catches Exception, *)
(* so __init__ itself returns in every case: the constructors above have   *)
(* no raising outcome.)                                                    *)
(***************************************************************************)
C6_FailedLoadIsEmpty ==
    (obj /= "none" /\ loadFailed) => data = <<>>

\* the part of C6 the code satisfies: Movies and Ratings, and a missing file
C6_FailedLoadIsEmptyWholeList ==
    (obj /= "none" /\ loadFailed /\ (obj \in {"Movies", "Ratings"} \/ ~file.exists))
        => data = <<>>

(***************************************************************************)
(* Python list and dict operations.  A dict is the sequence of its         *)
(* <<key, value>> items in insertion order.                                *)
(***************************************************************************)
Min(a, b) == IF a <= b THEN a ELSE b
Max(a, b) == IF a >= b THEN a ELSE b

\* s[:n]
Slice(s, n) ==
    IF n >= 0 THEN SubSeq(s, 1, Min(n, Len(s)))
    ELSE SubSeq(s, 1, Max(Len(s) + n, 0))

\* tuples of integers, compared as Python compares tuples
LexLess(a, b) ==
    \/ \E i \in 1..Min(Len(a), Len(b)) :
          /\ a[i] < b[i]
          /\ \A j \in 1..(i - 1) : a[j] = b[j]
    \/ /\ Len(a) < Len(b)
       /\ \A j \in 1..Len(a) : a[j] = b[j]

\* sorted(): stable, so equal keys keep their order.  The items are [k, v],
\* k the key (a tuple of integers) and v the element
RECURSIVE InsertSorted(_, _)
InsertSorted(sorted, x) ==
    IF sorted = <<>> THEN <<x>>
    ELSE IF LexLess(x.k, Head(sorted).k) THEN <<x>> \o sorted
         ELSE <<Head(sorted)>> \o InsertSorted(Tail(sorted), x)

RECURSIVE StableSort(_)
StableSort(items) ==
    IF items = <<>> THEN <<>>
    ELSE InsertSorted(StableSort(SubSeq(items, 1, Len(items) - 1)), items[Len(items)])

Elements(items) == [i \in 1..Len(items) |-> items[i].v]

\* the items as they came, with no sort
Unsorted(pairs) == pairs

\* sorted(pairs, key=lambda x: x[1], reverse=True): reverse keeps the order
\* of equal keys, as an ascending sort on the negated key does
SortedByValueDesc(pairs) ==
    Elements(StableSort([i \in 1..Len(pairs) |->
                            [k |-> <<-(pairs[i][2])>>, v |-> pairs[i]]]))

\* the first index of x in q, 0 when absent
IndexOf(q, x) ==
    IF \E i \in 1..Len(q) : q[i] = x
    THEN CHOOSE i \in 1..Len(q) : q[i] = x /\ \A j \in 1..(i - 1) : q[j] /= x
    ELSE 0

\* the distinct elements of q in the order of their first occurrence
FirstOccurrences(q) ==
    LET firsts == SelectSeq([i \in 1..Len(q) |-> <<i, q[i]>>],
                            LAMBDA e : IndexOf(q, e[2]) = e[1])
    IN  [i \in 1..Len(firsts) |-> firsts[i][2]]

Count(q, x) == Cardinality({i \in 1..Len(q) : q[i] = x})

\* Counter(q).items()
Counter(q) ==
    LET keys == FirstOccurrences(q)
    IN  [i \in 1..Len(keys) |-> <<keys[i], Count(q, keys[i])>>]

UpperLetters ==
    <<"A", "B", "C", "D", "E", "F", "G", "H", "I", "J", "K", "L", "M", "N",
      "O", "P", "Q", "R", "S", "T", "U", "V", "W", "X", "Y", "Z">>
LowerLetters ==
    <<"a", "b", "c", "d", "e", "f", "g", "h", "i", "j", "k", "l", "m", "n",
      "o", "p", "q", "r", "s", "t", "u", "v", "w", "x", "y", "z">>

\* s.lower()
Lower(s) ==
    [i \in 1..Len(s) |->
        IF IndexOf(UpperLetters, s[i]) > 0
        THEN LowerLetters[IndexOf(UpperLetters, s[i])] ELSE s[i]]

\* the printable ASCII characters in code-point order, from the space on
\* (the grave accent, which no text of the model holds, keeps its place)
Ascii ==
    <<" ", "!", "\"", "#", "$", "%", "&", "'", "(", ")", "*", "+",
      ",", "-", ".", "/", "0", "1", "2", "3", "4", "5", "6", "7",
      "8", "9", ":", ";", "<", "=", ">", "?", "@", "A", "B", "C",
      "D", "E", "F", "G", "H", "I", "J", "K", "L", "M", "N", "O",
      "P", "Q", "R", "S", "T", "U", "V", "W", "X", "Y", "Z", "[",
      "\\", "]", "^", "_", "<grave>", "a", "b", "c", "d", "e", "f", "g",
      "h", "i", "j", "k", "l", "m", "n", "o", "p", "q", "r", "s",
      "t", "u", "v", "w", "x", "y", "z", "{", "|", "}", "~">>

\* ord(c)
Ord(c) == IndexOf(Ascii, c) + 31

\* sorted(strs): str compares code point by code point, a proper prefix first
SortedStrings(strs) ==
    Elements(StableSort([i \in 1..Len(strs) |->
                            [k |-> [j \in 1..Len(strs[i]) |-> Ord(strs[i][j])],
                             v |-> strs[i]]]))

\* len(s.split()): the maximal runs of non-whitespace characters
WordCount(s) ==
    Cardinality({i \in 1..Len(s) : s[i] /= " " /\ (i = 1 \/ s[i - 1] = " ")})

(***************************************************************************)
(* The queries of Tags.  No statement of their try blocks raises for an    *)
(* integer n, so none of them takes its except branch.                     *)
(***************************************************************************)
NArgs == -1..MaxRows

TagsMostWords(n) ==
    LET word_counts == [i \in 1..Len(tags) |-> <<tags[i], WordCount(tags[i])>>]
    IN  Slice(SortedByValueDesc(word_counts), n)

TagsLongest(n) ==
    LET byLen == SortedByValueDesc([i \in 1..Len(tags) |-> <<tags[i], Len(tags[i])>>])
    IN  Slice([i \in 1..Len(byLen) |-> byLen[i][1]], n)

\* self.tags after a longest() that sorted the list in place
TagsLongestSortsInPlace ==
    LET byLen == SortedByValueDesc([i \in 1..Len(tags) |-> <<tags[i], Len(tags[i])>>])
    IN  [i \in 1..Len(byLen) |-> byLen[i][1]]

\* self.tags after longest(): sorted(self.tags, ...) builds a new list and
\* leaves self.tags as it was
TagsLongestLeaves == tags

\* tag_original after the loop over the rows: each assignment
\* tag_original[tag_lower] = tag replaces the one before
TagOriginal(column, low) ==
    LET last == CHOOSE i \in 1..Len(column) :
                    /\ Lower(column[i]) = low
                    /\ \A j \in (i + 1)..Len(column) : Lower(column[j]) /= low
    IN  column[last]


TagsMostPopular(n) ==
    LET column == TagColumn(data)
        lowered == [i \in 1..Len(column) |-> Lower(column[i])]
        tag_counts == Counter(lowered)
        top == Slice(SortedByValueDesc(tag_counts), n)
    IN  [i \in 1..Len(top) |-> <<TagOriginal(column, top[i][1]), top[i][2]>>]

\* tags_with compared with the case kept: word in tag
TagsTagsWithCaseSensitive(word) ==
    SortedStrings(SelectSeq(tags, LAMBDA tag : Contains(tag, word)))

\* tags_with: word.lower() in tag.lower(), then sorted
TagsTagsWith(word) ==
    SortedStrings(SelectSeq(tags, LAMBDA tag : Contains(Lower(tag), Lower(word))))

\* the caller takes the result; the object is ready for its next query
Return ==
    /\ op /= "none"
    /\ op' = "none"
    /\ arg' = NoArg
    /\ res' = <<>>
    /\ raised' = "none"
    /\ net' = <<>>
    /\ UNCHANGED objVars

Query(name, n, result) ==
    /\ op = "none"
    /\ op' = name
    /\ arg' = [NoArg EXCEPT !.n = n]
    /\ res' = result
    /\ raised' = "none"
    /\ UNCHANGED <<objVars, net>>

MostWords == obj = "Tags" /\ \E n \in NArgs : Query("most_words", n, TagsMostWords(n))

Longest ==
    /\ obj = "Tags"
    /\ \E n \in NArgs :
          /\ op = "none"
          /\ op' = "longest"
          /\ arg' = [NoArg EXCEPT !.n = n]
          /\ res' = TagsLongest(n)
          /\ raised' = "none"
          /\ tags' = TagsLongestLeaves
          /\ UNCHANGED <<file, moviesCsv, obj, data, loadFailed, net>>

MostPopular == obj = "Tags" /\ \E n \in NArgs : Query("most_popular", n, TagsMostPopular(n))

Word_AB == <<"A", "B">>
Words == {<<>>, <<"b">>, <<"B">>, <<"c">>, <<"a", " ">>, Word_AB}

TagsWith ==
    /\ obj = "Tags"
    /\ \E word \in Words :
          /\ op = "none"
          /\ op' = "tags_with"
          /\ arg' = [NoArg EXCEPT !.word = word]
          /\ res' = TagsTagsWith(word)
          /\ raised' = "none"
          /\ UNCHANGED <<objVars, net>>

(***************************************************************************)
(* C1: a top-N query called with n returns at most max(n, 0) entries; for  *)
(* n <= 0, negative n included, it returns none.                           *)
(***************************************************************************)
TopNQueries ==
    {"most_words", "longest", "most_popular", "most_genres", "top_by_num_of_ratings",
     "top_by_ratings", "top_controversial", "get_top_movies", "top_directors"}

C1_TopNAtMostN ==
    (op \in TopNQueries /\ raised = "none") => Len(res) <= Max(arg.n, 0)

\* the part of C1 the code satisfies: n >= 0
C1_TopNAtMostNonNegativeN ==
    (op \in TopNQueries /\ raised = "none" /\ arg.n >= 0) => Len(res) <= arg.n

(***************************************************************************)
(* C3: most_popular groups the tags of all rows case-insensitively; each   *)
(* entry's key is the spelling of the first row of its group and its value *)
(* the number of rows of the group.                                        *)
(***************************************************************************)
SameGroup(a, b) == Lower(a) = Lower(b)

C3_MostPopularFirstSpelling ==
    op = "most_popular" =>
        LET column == TagColumn(data)
        IN  \A i \in 1..Len(res) :
                /\ \E j \in 1..Len(column) :
                      /\ column[j] = res[i][1]
                      /\ \A e \in 1..(j - 1) : ~SameGroup(column[e], column[j])
                /\ res[i][2] =
                      Cardinality({j \in 1..Len(column) : SameGroup(column[j], res[i][1])})

\* what the code does instead: the key is the spelling of the group's last row
C3_MostPopularLastSpelling ==
    op = "most_popular" =>
        LET column == TagColumn(data)
        IN  \A i \in 1..Len(res) :
                /\ \E j \in 1..Len(column) :
                      /\ column[j] = res[i][1]
                      /\ \A e \in (j + 1)..Len(column) : ~SameGroup(column[e], column[j])
                /\ res[i][2] =
                      Cardinality({j \in 1..Len(column) : SameGroup(column[j], res[i][1])})

(***************************************************************************)
(* C14: tags_with(word) returns exactly the distinct tags of the file that *)
(* contain the word when case is ignored, each once, in ascending order.   *)
(***************************************************************************)
SameLetter(a, b) == Lower(<<a>>) = Lower(<<b>>)

\* the word occurs in the tag at some offset, letter for letter, case aside
OccursIgnoringCase(word, tag) ==
    \E off \in 0..(Len(tag) - Len(word)) :
        \A k \in 1..Len(word) : SameLetter(tag[off + k], word[k])

StrLess(a, b) ==
    LexLess([j \in 1..Len(a) |-> Ord(a[j])], [j \in 1..Len(b) |-> Ord(b[j])])

C14_TagsWith ==
    op = "tags_with" =>
        /\ Range(res) = {t \in Range(TagColumn(data)) : OccursIgnoringCase(arg.word, t)}
        /\ \A i \in 1..Len(res), j \in 1..Len(res) : i < j => StrLess(res[i], res[j])

\* "AB" finds the stored tags "Ab" and "ab"
C14_Witness ==
    /\ op = "tags_with"
    /\ arg.word = Word_AB
    /\ res = << <<"A", "b">>, <<"a", "b">> >>

(***************************************************************************)
(* C17: in longest(n) and most_words(n), tags of equal length (of equal    *)
(* word count) appear in the order of their first appearance in the file.  *)
(***************************************************************************)
C17_TiesInFileOrder ==
    LET column == TagColumn(data)
    IN  /\ op = "longest" =>
              \A i \in 1..Len(res), j \in 1..Len(res) :
                  (i < j /\ Len(res[i]) = Len(res[j])) =>
                      IndexOf(column, res[i]) < IndexOf(column, res[j])
        /\ op = "most_words" =>
              \A i \in 1..Len(res), j \in 1..Len(res) :
                  (i < j /\ res[i][2] = res[j][2]) =>
                      IndexOf(column, res[i][1]) < IndexOf(column, res[j][1])

\* what the code does instead: equal keys keep the order of self.tags, the
\* order in which list(set(tags)) came out
C17_TiesInListOrder ==
    /\ op = "longest" =>
          \A i \in 1..Len(res), j \in 1..Len(res) :
              (i < j /\ Len(res[i]) = Len(res[j])) =>
                  IndexOf(tags, res[i]) < IndexOf(tags, res[j])
    /\ op = "most_words" =>
          \A i \in 1..Len(res), j \in 1..Len(res) :
              (i < j /\ res[i][2] = res[j][2]) =>
                  IndexOf(tags, res[i][1]) < IndexOf(tags, res[j][1])

TagsNext ==
    \/ NewTags /\ UNCHANGED <<parseVars, csvVars, statVars>>
    \/ MostWords /\ UNCHANGED <<parseVars, csvVars, statVars>>
    \/ Longest /\ UNCHANGED <<parseVars, csvVars, statVars>>
    \/ MostPopular /\ UNCHANGED <<parseVars, csvVars, statVars>>
    \/ TagsWith /\ UNCHANGED <<parseVars, csvVars, statVars>>
    \/ Return /\ UNCHANGED <<parseVars, csvVars, statVars>>

TagsInit ==
    /\ ObjInit(Files(TagsLines, 0..MaxRows), {NoFile})
    /\ ParseIdle
    /\ CsvIdle
    /\ StatIdle

SpecTags == TagsInit /\ [][TagsNext]_vars

(***************************************************************************)
(* Links._load_movies and Links.get_movie_title: the id -> title map that  *)
(* the movie variants of the ratings queries and get_top_movies read from  *)
(* data-folder/movies.csv on every call.                                   *)
(***************************************************************************)
\* the dict as its (id, title) assignments in order, or the value Failed for
\* the [] that is returned when the file is missing, empty or unreadable
Failed == <<"<failed>">>

LoadMovies(f) ==
    IF ~f.exists \/ ReadFails(f) \/ f.lines = <<>> THEN Failed
    ELSE LET rows == [i \in 1..(Len(f.lines) - 1) |-> RegexRow(f.lines[i + 1])]
             kept == SelectSeq(rows, LAMBDA r : Len(r) >= 3)
         IN  [i \in 1..Len(kept) |-> <<kept[i][1], kept[i][2]>>]

\* list_of_movies[movie_id] when movie_id is in it, else None; the last
\* assignment to a key is the one a dict holds
GetMovieTitle(movie_id, list_of_movies) ==
    IF list_of_movies /= Failed
       /\ \E i \in 1..Len(list_of_movies) : list_of_movies[i][1] = movie_id
    THEN LET last == CHOOSE i \in 1..Len(list_of_movies) :
                        /\ list_of_movies[i][1] = movie_id
                        /\ \A j \in (i + 1)..Len(list_of_movies) :
                              list_of_movies[j][1] /= movie_id
         IN  list_of_movies[last][2]
    ELSE None

Catalog_12 == [exists |-> TRUE, errAt |-> 0,
               lines |-> <<MoviesLine_header, MoviesLine_1, MoviesLine_2>>]
Catalogs == {NoFile, Catalog_12}

(***************************************************************************)
(* The queries of Ratings.  A rating is float(row[2]); the metrics are     *)
(* exact rationals, and round(x, 2) is kept in hundredths.                 *)
(***************************************************************************)
RECURSIVE Sum(_)
Sum(q) == IF q = <<>> THEN 0 ELSE Head(q) + Sum(Tail(q))

SortedInts(q) == Elements(StableSort([i \in 1..Len(q) |-> [k |-> <<q[i]>>, v |-> q[i]]]))

\* round(num / den, 2) in hundredths, num >= 0, den > 0: to nearest, a tie
\* to the even hundredth (a tie has an exact binary value for den a power
\* of 2, the only ties groups of fewer than 10 integer ratings produce)
Round2(num, den) ==
    LET q == (100 * num) \div den
        r == (100 * num) % den
    IN  IF 2 * r < den THEN q
        ELSE IF 2 * r > den THEN q + 1
        ELSE IF q % 2 = 0 THEN q ELSE q + 1

\* round(_average(lst), 2), lst non-empty
AverageRounded(lst) == Round2(Sum(lst), Len(lst))

\* _median without its sort: the list is indexed as it came
MedianTwiceUnsorted(lst) ==
    LET n == Len(lst)
    IN  IF n % 2 = 1 THEN 2 * lst[(n \div 2) + 1]
        ELSE lst[n \div 2] + lst[(n \div 2) + 1]

\* twice _median(lst), lst non-empty: an integer, as the median of integers
\* is a whole number of halves
MedianTwice(lst) ==
    LET n == Len(lst)
        srt == SortedInts(lst)
    IN  IF n % 2 = 1 THEN 2 * srt[(n \div 2) + 1]
        ELSE srt[n \div 2] + srt[(n \div 2) + 1]

\* the caller's list after _median(lst): lst = sorted(lst) binds the
\* parameter to a new list and leaves the list passed in as it was
MedianLeaves(lst) == lst

\* round(_median(lst), 2), lst non-empty
MedianRounded(lst) == Round2(MedianTwice(lst), 2)

\* round(_variance(lst), 2), lst non-empty:
\* sum((x - avg)^2) / n = (n * sum(x^2) - sum(x)^2) / n^2
VarianceRounded(lst) ==
    LET n == Len(lst)
        squares == [i \in 1..n |-> lst[i] * lst[i]]
    IN  Round2(n * Sum(squares) - Sum(lst) * Sum(lst), n * n)

\* the exception of the first element that has one, "none" when none has
FirstError(errs) ==
    IF \E i \in 1..Len(errs) : errs[i] /= "none"
    THEN errs[CHOOSE i \in 1..Len(errs) :
                 errs[i] /= "none" /\ \A j \in 1..(i - 1) : errs[j] = "none"]
    ELSE "none"

\* int(s): ValueError unless s is a digit string with optional whitespace around
IntOk(s) == IsDigit(Strip(s))

\* datetime.fromtimestamp(ts).year, for a zone without offset from UTC
YearOf(ts) == 1970 + (ts \div 31556952)

Outcome(result, exception) == [res |-> result, raised |-> exception]

\* sorted(c.items(), key=lambda x: x[0]) of integer keys
SortedByKeyAsc(pairs) ==
    Elements(StableSort([i \in 1..Len(pairs) |-> [k |-> <<pairs[i][1]>>, v |-> pairs[i]]]))

RatingsDistByYear ==
    LET err == FirstError([i \in 1..Len(data) |->
                   IF Len(data[i]) < 4 THEN "IndexError"
                   ELSE IF ~IntOk(data[i][4]) THEN "ValueError" ELSE "none"])
    IN  IF err /= "none" THEN Outcome(<<>>, err)
        ELSE Outcome(SortedByKeyAsc(Counter([i \in 1..Len(data) |->
                                        YearOf(ToInt(Strip(data[i][4])))])), "none")

RatingsDistByRating ==
    LET err == FirstError([i \in 1..Len(data) |->
                   IF Len(data[i]) < 3 THEN "IndexError"
                   ELSE IF ~FloatOk(data[i][3]) THEN "ValueError" ELSE "none"])
    IN  IF err /= "none" THEN Outcome(<<>>, err)
        ELSE Outcome(SortedByKeyAsc(Counter([i \in 1..Len(data) |->
                                        FloatVal(data[i][3])])), "none")

\* Counter.most_common(n), n an integer: heapq.nlargest(n, items, key=count),
\* which is sorted(items, key=count, reverse=True)[:n] for n >= 0 and [] below
MostCommon(counter, n) ==
    IF n < 0 THEN <<>> ELSE Slice(SortedByValueDesc(counter), n)

RatingsTopByNumOfRatings(n, index_of_id) ==
    IF index_of_id = 0
    THEN Outcome(SortedByValueDesc(MostCommon(
                    Counter([i \in 1..Len(data) |-> data[i][1]]), n)), "none")
    ELSE IF index_of_id = 1
    THEN LET list_of_movies == LoadMovies(moviesCsv)
             err == FirstError([i \in 1..Len(data) |->
                        IF Len(data[i]) < 2 THEN "IndexError" ELSE "none"])
         IN  IF err /= "none" THEN Outcome(<<>>, err)
             ELSE Outcome(SortedByValueDesc(MostCommon(
                     Counter([i \in 1..Len(data) |->
                                 GetMovieTitle(data[i][2], list_of_movies)]), n)), "none")
    ELSE Outcome(<<>>, "AttributeError")

\* create_list_of_ratings: [d, raised], d the dict key -> list of ratings
CreateListOfRatings(index_of_id) ==
    LET list_of_movies == LoadMovies(moviesCsv)
        err == FirstError([i \in 1..Len(data) |->
                   IF index_of_id + 1 > Len(data[i]) THEN "IndexError"
                   ELSE IF Len(data[i]) < 3 THEN "IndexError"
                   ELSE IF ~FloatOk(data[i][3]) THEN "ValueError" ELSE "none"])
        keyOf(item) == IF index_of_id = 1
                       THEN GetMovieTitle(item[2], list_of_movies)
                       ELSE item[index_of_id + 1]
        keys == [i \in 1..Len(data) |-> keyOf(data[i])]
        firsts == FirstOccurrences(keys)
        group(key) == LET mine == SelectSeq(data, LAMBDA item : keyOf(item) = key)
                      IN  [i \in 1..Len(mine) |-> FloatVal(mine[i][3])]
    IN  IF err /= "none" THEN [d |-> <<>>, raised |-> err]
        ELSE [d |-> [i \in 1..Len(firsts) |-> <<firsts[i], group(firsts[i])>>],
              raised |-> "none"]

Metrics == {"average", "median"}

RatingsTopByRatings(n, metric, index_of_id) ==
    LET made == CreateListOfRatings(index_of_id)
        d == made.d
        valued == [i \in 1..Len(d) |->
                      <<d[i][1], IF metric = "average" THEN AverageRounded(d[i][2])
                                 ELSE MedianRounded(d[i][2])>>]
    IN  IF made.raised /= "none" THEN Outcome(<<>>, made.raised)
        ELSE IF d /= <<>> /\ metric \notin Metrics THEN Outcome(<<>>, "KeyError")
        ELSE IF d = <<>> THEN Outcome(<<>>, "none")
        ELSE Outcome(Slice(SortedByValueDesc(valued), Max(n, 0)), "none")

RatingsTopControversial(n, index_of_id) ==
    LET made == CreateListOfRatings(index_of_id)
        d == made.d
        valued == [i \in 1..Len(d) |-> <<d[i][1], VarianceRounded(d[i][2])>>]
    IN  IF made.raised /= "none" THEN Outcome(<<>>, made.raised)
        ELSE Outcome(Slice(SortedByValueDesc(valued), Max(n, 0)), "none")

RatingsN == {-1, 0, 1, MaxRows}
IndexArgs == {0, 1, 2, 5}
MetricArgs == Metrics \cup {"mode"}

Call(name, arguments, outcome) ==
    /\ op = "none"
    /\ op' = name
    /\ arg' = arguments
    /\ res' = outcome.res
    /\ raised' = outcome.raised
    /\ UNCHANGED <<objVars, net>>

DistByYear ==
    /\ obj = "Ratings"
    /\ Call("dist_by_year", NoArg, RatingsDistByYear)

DistByRating ==
    /\ obj = "Ratings"
    /\ Call("dist_by_rating", NoArg, RatingsDistByRating)

TopByNumOfRatings ==
    /\ obj = "Ratings"
    /\ \E n \in RatingsN, i \in IndexArgs :
          Call("top_by_num_of_ratings", [NoArg EXCEPT !.n = n, !.idx = i],
               RatingsTopByNumOfRatings(n, i))

TopByRatings ==
    /\ obj = "Ratings"
    /\ \E n \in RatingsN, m \in MetricArgs, i \in IndexArgs :
          Call("top_by_ratings", [NoArg EXCEPT !.n = n, !.metric = m, !.idx = i],
               RatingsTopByRatings(n, m, i))

TopControversial ==
    /\ obj = "Ratings"
    /\ \E n \in RatingsN, i \in IndexArgs :
          Call("top_controversial", [NoArg EXCEPT !.n = n, !.idx = i],
               RatingsTopControversial(n, i))

(***************************************************************************)
(* C2: in the movie variant (index_of_id = 1) of top_by_num_of_ratings,    *)
(* top_by_ratings and top_controversial, a row whose movieId has no title  *)
(* contributes to no group: every key of the result is the title of a      *)
(* movie, none stands for the unresolved movies, and a count is the number *)
(* of rows that resolve to its title.                                      *)
(***************************************************************************)
RatingsStatQueries == {"top_by_num_of_ratings", "top_by_ratings", "top_controversial"}

ResolvedTitles ==
    {GetMovieTitle(data[i][2], LoadMovies(moviesCsv)) :
        i \in {j \in 1..Len(data) : Len(data[j]) >= 2}} \ {None}

RowsOfTitle(title) ==
    {i \in 1..Len(data) :
        Len(data[i]) >= 2 /\ GetMovieTitle(data[i][2], LoadMovies(moviesCsv)) = title}

C2_UnresolvedRowsDropped ==
    (op \in RatingsStatQueries /\ arg.idx = 1 /\ raised = "none") =>
        \A i \in 1..Len(res) :
            /\ res[i][1] /= None
            /\ res[i][1] \in ResolvedTitles
            /\ op = "top_by_num_of_ratings" =>
                  res[i][2] = Cardinality(RowsOfTitle(res[i][1]))

\* what the code does instead: the unresolved rows form a group of their own
\* under the key None
C2_UnresolvedRowsUnderNone ==
    (op \in RatingsStatQueries /\ arg.idx = 1 /\ raised = "none") =>
        \A i \in 1..Len(res) :
            /\ res[i][1] \in ResolvedTitles \cup {None}
            /\ op = "top_by_num_of_ratings" =>
                  res[i][2] = Cardinality(RowsOfTitle(res[i][1]))

(***************************************************************************)
(* C5: whatever the table holds (blank lines, rows with too few fields,    *)
(* non-numeric fields), a query called with valid arguments returns a      *)
(* result and raises nothing.                                              *)
(***************************************************************************)
ValidArguments ==
    /\ arg.idx \in {0, 1}
    /\ op = "top_by_ratings" => arg.metric \in Metrics

C5_QueriesNeverRaise ==
    (op /= "none" /\ ValidArguments) => raised = "none"

\* the part of C5 the code satisfies: rows of 4 fields with numeric rating
\* and timestamp
CleanRow(r) == Len(r) >= 4 /\ FloatOk(r[3]) /\ IntOk(r[4])

C5_QueriesNeverRaiseOnCleanRows ==
    (op /= "none" /\ ValidArguments /\ \A i \in 1..Len(data) : CleanRow(data[i]))
        => raised = "none"

(***************************************************************************)
(* C7: a ratings statistics query called with an invalid metric name or an *)
(* invalid entity selector raises, for every table, the empty one          *)
(* included; it never returns a result.                                    *)
(***************************************************************************)
InvalidArguments ==
    \/ arg.idx \notin {0, 1}
    \/ op = "top_by_ratings" /\ arg.metric \notin Metrics

C7_InvalidArgumentRaises ==
    (op \in RatingsStatQueries /\ InvalidArguments) => raised /= "none"

\* the part of C7 the code satisfies: top_by_num_of_ratings checks its selector
C7_InvalidSelectorRaisesInTopByNum ==
    (op = "top_by_num_of_ratings" /\ InvalidArguments) => raised = "AttributeError"

RatingsNext ==
    \/ NewRatings /\ UNCHANGED <<parseVars, csvVars, statVars>>
    \/ DistByYear /\ UNCHANGED <<parseVars, csvVars, statVars>>
    \/ DistByRating /\ UNCHANGED <<parseVars, csvVars, statVars>>
    \/ TopByNumOfRatings /\ UNCHANGED <<parseVars, csvVars, statVars>>
    \/ TopByRatings /\ UNCHANGED <<parseVars, csvVars, statVars>>
    \/ TopControversial /\ UNCHANGED <<parseVars, csvVars, statVars>>
    \/ Return /\ UNCHANGED <<parseVars, csvVars, statVars>>

RatingsInit ==
    /\ ObjInit(Files(RatingsLines, {0, 1}), Catalogs)
    /\ ParseIdle
    /\ CsvIdle
    /\ StatIdle

SpecRatings == RatingsInit /\ [][RatingsNext]_vars

(***************************************************************************)
(* The queries of Links.  requests.get is the environment: a fetch raises, *)
(* answers with a status other than 200, or answers 200 with a page, of    *)
(* which _extract_field gives the text of the requested field.             *)
(***************************************************************************)
Text_NA == <<"N", "/", "A">>
FieldTexts == {Text_95, Text_NA}

NotFetched == [status |-> "not fetched", field |-> <<>>]
Fetches ==
    {[status |-> "raised", field |-> <<>>], [status |-> "404", field |-> <<>>]}
        \cup {[status |-> "200", field |-> t] : t \in FieldTexts}

\* the loop of get_imdb fetches the movies with an imdbId in order, and
\* fetches no more once a fetch has raised
RECURSIVE FetchRunsFrom(_, _)
FetchRunsFrom(list_of_movies, stopped) ==
    IF list_of_movies = <<>> THEN {<<>>}
    ELSE IF stopped \/ ~Truthy(Head(list_of_movies).imdbId)
    THEN {<<NotFetched>> \o rest : rest \in FetchRunsFrom(Tail(list_of_movies), stopped)}
    ELSE UNION {{<<f>> \o rest :
                    rest \in FetchRunsFrom(Tail(list_of_movies), f.status = "raised")} :
                f \in Fetches}

FetchRuns(list_of_movies) == FetchRunsFrom(list_of_movies, FALSE)

\* get_imdb with one field: the rows [movieId, field] of the fetches that
\* answered 200, sorted by int(movieId) descending
LinksGetImdb(list_of_movies, fetched) ==
    LET got == SelectSeq([i \in 1..Len(list_of_movies) |->
                             <<list_of_movies[i].movieId, fetched[i]>>],
                         LAMBDA e : e[2].status = "200")
        imdb_data == [i \in 1..Len(got) |-> <<got[i][1], got[i][2].field>>]
    IN  IF \E i \in 1..Len(fetched) : fetched[i].status = "raised"
        THEN Outcome(<<>>, "ConnectionError")
        ELSE IF \E i \in 1..Len(imdb_data) : ~IntOk(imdb_data[i][1])
        THEN Outcome(<<>>, "ValueError")
        ELSE Outcome(Elements(StableSort([i \in 1..Len(imdb_data) |->
                        [k |-> <<-ToInt(Strip(imdb_data[i][1]))>>, v |-> imdb_data[i]]])),
                     "none")

\* dict(pairs) filled by d[key] = value: a key keeps the place of its first
\* assignment and the value of its last
DictOf(pairs) ==
    LET keys == FirstOccurrences([i \in 1..Len(pairs) |-> pairs[i][1]])
        lastValue(key) ==
            pairs[CHOOSE i \in 1..Len(pairs) :
                     /\ pairs[i][1] = key
                     /\ \A j \in (i + 1)..Len(pairs) : pairs[j][1] /= key][2]
    IN  [i \in 1..Len(keys) |-> <<keys[i], lastValue(keys[i])>>]

\* Links.longest(n): get_top_movies(["Runtime"], _parse_runtime, n); every
\* exception inside is caught and {} returned
LinksLongest(n, fetched) ==
    LET imdb == LinksGetImdb(data, fetched)
        list_of_movies == LoadMovies(moviesCsv)
        titled == SelectSeq(imdb.res,
                            LAMBDA e : GetMovieTitle(e[1], list_of_movies) /= None)
        results == DictOf([i \in 1..Len(titled) |->
                       <<GetMovieTitle(titled[i][1], list_of_movies),
                         ParseRuntime(titled[i][2])>>])
    IN  IF imdb.raised /= "none" THEN Outcome(<<>>, "none")
        ELSE Outcome(Slice(SortedByValueDesc(results), n), "none")

\* Links.top_directors(n): the field is the director's name
LinksTopDirectors(n, fetched) ==
    LET imdb == LinksGetImdb(data, fetched)
        named == SelectSeq(imdb.res, LAMBDA e : Truthy(e[2]) /\ e[2] /= Text_NA)
        directors_count == Counter([i \in 1..Len(named) |-> named[i][2]])
    IN  IF imdb.raised /= "none" THEN Outcome(<<>>, "none")
        ELSE Outcome(Slice(SortedByValueDesc(directors_count), n), "none")

LinksN == {-1, 0, 1, MaxRows}

Fetching(name, n, fetched, outcome) ==
    /\ op = "none"
    /\ op' = name
    /\ arg' = [NoArg EXCEPT !.n = n]
    /\ net' = fetched
    /\ res' = outcome.res
    /\ raised' = outcome.raised
    /\ UNCHANGED objVars

GetImdb ==
    /\ obj = "Links"
    /\ \E fetched \in FetchRuns(data) :
          Fetching("get_imdb", 0, fetched, LinksGetImdb(data, fetched))

GetTopMovies ==
    /\ obj = "Links"
    /\ \E n \in LinksN, fetched \in FetchRuns(data) :
          Fetching("get_top_movies", n, fetched, LinksLongest(n, fetched))

TopDirectors ==
    /\ obj = "Links"
    /\ \E n \in LinksN, fetched \in FetchRuns(data) :
          Fetching("top_directors", n, fetched, LinksTopDirectors(n, fetched))

(***************************************************************************)
(* C8: in the fetch loop of get_imdb, and in the top-N queries built on    *)
(* it, a failing fetch (a status other than 200, or an error raised by the *)
(* fetch) leaves out only its own movie: every movie whose fetch succeeded *)
(* is in the result, wherever the failing movie stands in the list.        *)
(***************************************************************************)
Succeeded(i) == net[i].status = "200"

C8_OnlyFailedMovieOmitted ==
    /\ op = "get_imdb" =>
          \A i \in 1..Len(net) :
              Succeeded(i) =>
                  \E e \in 1..Len(res) : res[e] = <<data[i].movieId, net[i].field>>
    /\ (op = "get_top_movies" /\ arg.n >= Len(data)) =>
          \A i \in 1..Len(net) :
              (Succeeded(i) /\ GetMovieTitle(data[i].movieId, LoadMovies(moviesCsv)) /= None)
                  => \E e \in 1..Len(res) :
                        res[e][1] = GetMovieTitle(data[i].movieId, LoadMovies(moviesCsv))

\* the part of C8 the code satisfies: the failure is a status other than 200
C8_OnlyNon200MovieOmitted ==
    (op = "get_imdb" /\ \A j \in 1..Len(net) : net[j].status /= "raised") =>
        \A i \in 1..Len(net) :
            Succeeded(i) =>
                \E e \in 1..Len(res) : res[e] = <<data[i].movieId, net[i].field>>

LinksNext ==
    \/ NewLinks /\ UNCHANGED <<parseVars, csvVars, statVars>>
    \/ GetImdb /\ UNCHANGED <<parseVars, csvVars, statVars>>
    \/ GetTopMovies /\ UNCHANGED <<parseVars, csvVars, statVars>>
    \/ TopDirectors /\ UNCHANGED <<parseVars, csvVars, statVars>>
    \/ Return /\ UNCHANGED <<parseVars, csvVars, statVars>>

LinksInit ==
    /\ ObjInit(Files(LinksLines, {0}), Catalogs)
    /\ ParseIdle
    /\ CsvIdle
    /\ StatIdle

SpecLinks == LinksInit /\ [][LinksNext]_vars

(***************************************************************************)
(* The queries of Movies.                                                  *)
(***************************************************************************)
IsUpper(c) == IndexOf(UpperLetters, c) > 0
IsLower(c) == IndexOf(LowerLetters, c) > 0
IsCased(c) == IsUpper(c) \/ IsLower(c)

\* s.title(): a letter after a letter is lowered, any other letter raised
TitleCase(s) ==
    [i \in 1..Len(s) |->
        IF i > 1 /\ IsCased(s[i - 1])
        THEN (IF IsUpper(s[i]) THEN LowerLetters[IndexOf(UpperLetters, s[i])] ELSE s[i])
        ELSE (IF IsLower(s[i]) THEN UpperLetters[IndexOf(LowerLetters, s[i])] ELSE s[i])]

\* s[-5:-1]
YearSlice(s) == SubSeq(s, Max(Len(s) - 5, 0) + 1, Len(s) - 1)

\* row[-1]
LastField(r) == r[Len(r)]

ShortRowError(rows) ==
    FirstError([i \in 1..Len(rows) |-> IF Len(rows[i]) < 2 THEN "IndexError" ELSE "none"])

\* dist_by_release sorting on the count alone: equal counts keep the order
\* in which the years first appear in the file
MoviesDistByReleaseNoTieBreak ==
    LET dated == SelectSeq(data, LAMBDA r : IsDigit(YearSlice(r[2])))
        years == Counter([i \in 1..Len(dated) |-> YearSlice(dated[i][2])])
    IN  IF ShortRowError(data) /= "none" THEN Outcome(<<>>, ShortRowError(data))
        ELSE Outcome(SortedByValueDesc(years), "none")

MoviesDistByRelease ==
    LET dated == SelectSeq(data, LAMBDA r : IsDigit(YearSlice(r[2])))
        years == Counter([i \in 1..Len(dated) |-> YearSlice(dated[i][2])])
    IN  IF ShortRowError(data) /= "none" THEN Outcome(<<>>, ShortRowError(data))
        ELSE Outcome(Elements(StableSort([i \in 1..Len(years) |->
                        [k |-> <<-(years[i][2]), -ToInt(years[i][1])>>, v |-> years[i]]])),
                     "none")

MoviesDistByGenres ==
    LET perRow == [i \in 1..Len(data) |->
                      LET items == Split(LastField(data[i]), "|")
                      IN  [j \in 1..Len(items) |-> TitleCase(Remove(items[j], <<",">>))]]
    IN  Outcome(SortedByValueDesc(Counter(Flatten(perRow))), "none")

MoviesMostGenres(n) ==
    LET temp_movies == DictOf([i \in 1..Len(data) |->
                           <<data[i][2], Len(Split(LastField(data[i]), "|"))>>])
    IN  IF ShortRowError(data) /= "none" THEN Outcome(<<>>, ShortRowError(data))
        ELSE Outcome(Slice(SortedByValueDesc(temp_movies), n), "none")

DistByRelease == obj = "Movies" /\ Call("dist_by_release", NoArg, MoviesDistByRelease)

DistByGenres == obj = "Movies" /\ Call("dist_by_genres", NoArg, MoviesDistByGenres)

MostGenres ==
    /\ obj = "Movies"
    /\ \E n \in NArgs : Call("most_genres", [NoArg EXCEPT !.n = n], MoviesMostGenres(n))

C18_KeysAreFourDigits ==
    (op = "dist_by_release" /\ raised = "none") =>
        \A i \in 1..Len(res) :
            /\ Len(res[i][1]) = 4
            /\ IsDigit(res[i][1])
            /\ res[i][2] =
                  Cardinality({r \in 1..Len(data) : YearSlice(data[r][2]) = res[i][1]})

\* what the code does instead: a key is any non-empty digit string that
\* title[-5:-1] gives, of 4 characters at most
C18_KeysAreDigits ==
    (op = "dist_by_release" /\ raised = "none") =>
        \A i \in 1..Len(res) :
            /\ Len(res[i][1]) \in 1..4
            /\ IsDigit(res[i][1])
            /\ res[i][2] =
                  Cardinality({r \in 1..Len(data) : YearSlice(data[r][2]) = res[i][1]})

MoviesNext ==
    \/ NewMovies /\ UNCHANGED <<parseVars, csvVars, statVars>>
    \/ DistByRelease /\ UNCHANGED <<parseVars, csvVars, statVars>>
    \/ DistByGenres /\ UNCHANGED <<parseVars, csvVars, statVars>>
    \/ MostGenres /\ UNCHANGED <<parseVars, csvVars, statVars>>
    \/ Return /\ UNCHANGED <<parseVars, csvVars, statVars>>

MoviesInit ==
    /\ ObjInit(Files(MoviesLines, {0, 1}), {NoFile})
    /\ ParseIdle
    /\ CsvIdle
    /\ StatIdle

SpecMovies == MoviesInit /\ [][MoviesNext]_vars

(***************************************************************************)
(* The queries of Tags, Movies and Ratings together, each class            *)
(* constructed on any of the files.                                        *)
(***************************************************************************)
QueriesNext ==
    \/ TagsNext
    \/ MoviesNext
    \/ RatingsNext

QueriesInit ==
    \/ TagsInit
    \/ MoviesInit
    \/ RatingsInit

SpecQueries == QueriesInit /\ [][QueriesNext]_vars

(***************************************************************************)
(* The four classes together, each constructed on a file made of lines of  *)
(* the four tables.                                                        *)
(***************************************************************************)
ObjectLines == {LinksLine_1, TagsLine_ab, TagsLine_a_b, MoviesLine_1, RatingsLine_u2m1}

ObjectsNext ==
    \/ QueriesNext
    \/ LinksNext

ObjectFiles ==
    {NoFile} \cup
    {[exists |-> TRUE, lines |-> ls, errAt |-> 0] : ls \in SeqsUpTo(ObjectLines, MaxObjectRows)}

ObjectsInit ==
    /\ ObjInit(ObjectFiles, Catalogs)
    /\ ParseIdle
    /\ CsvIdle
    /\ StatIdle

SpecObjects == ObjectsInit /\ [][ObjectsNext]_vars

(***************************************************************************)
(* C16: once the object is constructed no step changes its rows, nor the   *)
(* distinct-tag list of a Tags object: after any sequence of queries they  *)
(* are the ones loaded at construction.                                    *)
(***************************************************************************)
C16_QueriesLeaveRows ==
    [][obj /= "none" => (data' = data /\ tags' = tags /\ obj' = obj)]_vars

\* longest(2) has put two tags in the other order than the list holds them,
\* and the rows and the list are those the loader made
C16_Witness ==
    /\ obj = "Tags"
    /\ op = "longest"
    /\ Len(tags) = 2
    /\ res = <<tags[2], tags[1]>>
    /\ data = TagsLoadData(file).rows
    /\ Range(tags) = Range(TagColumn(data))

(***************************************************************************)
(* C12: the entries of a query's result are monotone in the stated key:    *)
(* the values (word count, length, count, metric) never increase from one  *)
(* entry to the next in the ranked queries, and the keys never decrease in *)
(* dist_by_year and dist_by_rating, whatever the order of the rows.        *)
(***************************************************************************)
ValueRanked ==
    {"most_words", "most_popular", "most_genres", "dist_by_release", "dist_by_genres",
     "top_by_num_of_ratings", "top_by_ratings", "top_controversial"}

KeyRanked == {"dist_by_year", "dist_by_rating"}

Samples == SeqsUpTo(1..MaxValue, MaxSample)

Sample_Even == <<2, 1, 4, 1>>

StatInit ==
    /\ sample \in Samples
    /\ given = <<>>
    /\ stat = NoStat

\* _median(sample): ValueError on the empty list, else the median
CallMedian ==
    /\ stat = NoStat
    /\ given' = sample
    /\ stat' = IF Len(sample) = 0 THEN [value |-> 0, raised |-> "ValueError"]
               ELSE [value |-> MedianTwice(sample), raised |-> "none"]
    /\ sample' = MedianLeaves(sample)

\* the caller takes the outcome and may call again
StatReturn ==
    /\ stat /= NoStat
    /\ stat' = NoStat
    /\ given' = <<>>
    /\ UNCHANGED sample

(***************************************************************************)
(* C11: for a non-empty list in any order, _median returns the middle      *)
(* element of the sorted list when the length is odd, the mean of the two  *)
(* central elements of the sorted list when it is even, and the caller's   *)
(* list is as it was.  The k-th element of the sorted list is stated by    *)
(* counting: fewer than k numbers lie below it, at least k at or below it. *)
(***************************************************************************)
IsKth(l, k, x) ==
    /\ Cardinality({i \in 1..Len(l) : l[i] < x}) < k
    /\ Cardinality({i \in 1..Len(l) : l[i] <= x}) >= k

Kth(l, k) == CHOOSE x \in Range(l) : IsKth(l, k, x)

C11_MedianOfSorted ==
    (stat /= NoStat /\ Len(given) > 0) =>
        LET n == Len(given)
        IN  /\ stat.raised = "none"
            /\ n % 2 = 1 => stat.value = 2 * Kth(given, (n \div 2) + 1)
            /\ n % 2 = 0 =>
                  stat.value = Kth(given, n \div 2) + Kth(given, (n \div 2) + 1)
            /\ sample = given

\* an unsorted list of even length whose median is the mean of 1 and 2
C11_Witness ==
    /\ given = Sample_Even
    /\ stat = [value |-> 3, raised |-> "none"]
    /\ sample = Sample_Even

StatNext ==
    \/ CallMedian /\ UNCHANGED <<parseVars, csvVars, objVars, queryVars>>
    \/ StatReturn /\ UNCHANGED <<parseVars, csvVars, objVars, queryVars>>

StatsInit ==
    /\ StatInit
    /\ ParseIdle
    /\ CsvIdle
    /\ ObjIdle

SpecStats == StatsInit /\ [][StatNext]_vars

LoadLines == {LinksLine_1, LinksLine_short, TagsLine_Ab, RatingsLine_header}

LoadNext ==
    \/ NewLinks /\ UNCHANGED <<parseVars, csvVars, statVars>>
    \/ NewTags /\ UNCHANGED <<parseVars, csvVars, statVars>>
    \/ NewMovies /\ UNCHANGED <<parseVars, csvVars, statVars>>
    \/ NewRatings /\ UNCHANGED <<parseVars, csvVars, statVars>>

LoadInit ==
    /\ ObjInit(Files(LoadLines, 0..MaxRows), {NoFile})
    /\ ParseIdle
    /\ CsvIdle
    /\ StatIdle

SpecLoad == LoadInit /\ [][LoadNext]_vars

(***************************************************************************)
(* The four constructors on any of the files, and the tag count asked of a *)
(* Tags object.                                                            *)
(***************************************************************************)
TablesNext ==
    \/ LoadNext
    \/ MostPopular /\ UNCHANGED <<parseVars, csvVars, statVars>>
    \/ Return /\ UNCHANGED <<parseVars, csvVars, statVars>>

SpecTables == LoadInit /\ [][TablesNext]_vars

(***************************************************************************)
(* C15: the movies and ratings loaders discard the first line of the file  *)
(* and build their rows from the lines after it; the links and tags        *)
(* loaders make a row of the first line they read, so the first line of a  *)
(* tags file, a header included, is among the tags and is counted by       *)
(* most_popular.  (The first line is read when the file exists and reading *)
(* it does not fail; the links loader makes a row of a line that has its   *)
(* three fields.)                                                          *)
(***************************************************************************)
FirstLineRead == file.exists /\ Len(file.lines) >= 1 /\ file.errAt /= 1

C15_FirstLine ==
    /\ (obj \in {"Movies", "Ratings"} /\ ~loadFailed) =>
          /\ Len(data) = Max(Len(file.lines) - 1, 0)
          /\ \A i \in 1..Len(data) :
                data[i] = IF obj = "Movies" THEN MoviesRow(file.lines[i + 1])
                          ELSE RatingsRow(file.lines[i + 1])
    /\ (obj = "Tags" /\ FirstLineRead) =>
          /\ Len(data) >= 1
          /\ data[1] = RegexRow(file.lines[1])
          /\ Len(data[1]) > 2 =>
                /\ Strip(data[1][3]) \in Range(tags)
                /\ (op = "most_popular" /\ arg.n >= Len(data)) =>
                      \E i \in 1..Len(res) : SameGroup(res[i][1], Strip(data[1][3]))
    /\ (obj = "Links" /\ FirstLineRead /\ Len(RegexRow(file.lines[1])) >= 3) =>
          /\ Len(data) >= 1
          /\ data[1] = [movieId |-> RegexRow(file.lines[1])[1],
                        imdbId |-> RegexRow(file.lines[1])[2],
                        tmdbId |-> RegexRow(file.lines[1])[3]]

\* a tags file that begins with the header u,m,r,t: "r" is counted as a tag
C15_Witness ==
    /\ obj = "Tags"
    /\ Len(file.lines) = 2
    /\ file.lines[1] = RatingsLine_header
    /\ file.lines[2] = TagsLine_Ab
    /\ file.errAt = 0
    /\ op = "most_popular"
    /\ \E i \in 1..Len(res) : res[i] = << <<"r">>, 1 >>

ParseNext ==
    \/ CallParseRuntime /\ UNCHANGED <<csvVars, objVars, queryVars, statVars>>
    \/ CallParseBudget /\ UNCHANGED <<csvVars, objVars, queryVars, statVars>>

ParserInit ==
    /\ ParseInit
    /\ CsvIdle
    /\ ObjIdle
    /\ StatIdle

SpecParse == ParserInit /\ [][ParseNext]_vars

CsvNext ==
    \/ LoadRegexRow /\ UNCHANGED <<parseVars, objVars, queryVars, statVars>>
    \/ LoadMoviesRow /\ UNCHANGED <<parseVars, objVars, queryVars, statVars>>
    \/ LoadRatingsRow /\ UNCHANGED <<parseVars, objVars, queryVars, statVars>>

RowInit ==
    /\ CsvInit
    /\ ParseIdle
    /\ ObjIdle
    /\ StatIdle

SpecCsv == RowInit /\ [][CsvNext]_vars

====
